---------------------------- MODULE Spec2Model ----------------------------
(***************************************************************************)
(* Control core of the EBD-MINI programmable load firmware                 *)
(* (src/openebdmini.c) and the validated mode-transition function of       *)
(* src/state.c.                                                            *)
(*                                                                         *)
(* The main loop is  checkstate(); sendstate(); checkbuttons();            *)
(* updatedisplay();  forever.  updatedisplay only reads the program state  *)
(* and drives the display pins (PD4, PC5, PC3, PC2 and the segment pins),  *)
(* none of which is part of the state modelled here, so the loop position  *)
(* goes from checkbuttons straight back to checkstate.                     *)
(***************************************************************************)
EXTENDS Integers, Sequences, FiniteSets, TLC

(***************************************************************************)
(* Program constants                                                       *)
(***************************************************************************)
FANWATTTHRESHOLD == 2500
MILLIVOLTSPERSTEP == 20
MILLIVOLTSPERSTEP_HIGHGAIN == 65
HIGHOFFSET == 20
MICROVOLTSPERSTEP_SHUNT == 68
SAMPLES == 12

\* typedef enum operationmode
OPMODE_OFF == 0
OPMODE_SET == 1
OPMODE_ON == 2
OPMODE_LVC == 3
OperationModes == {OPMODE_OFF, OPMODE_SET, OPMODE_ON, OPMODE_LVC}

\* typedef enum displaymode
VOLTS == 0
AMPS == 1
AMPHOURS == 2
WATTS == 3
DISPMODE_END == 4

\* static uint16_t lvc / targetamps: initialised, never assigned afterwards
lvc == 2000
targetamps == 1000

\* the reload value of TIM1 (the PWM period) written by initload
reloadvalue == 1024

(***************************************************************************)
(* Bounds of the model                                                     *)
(***************************************************************************)
\* loop iterations explored from the initial state
MaxIter == 5
\* how often the analog source at the ADC pins changes during a run
MaxChanges == 1

(***************************************************************************)
(* Integer widths                                                          *)
(***************************************************************************)
\* uint8_t and uint16_t.  The uint32_t intermediates of checkstate (sums of 12
\* ten-bit codes, products of two uint16_t below 3479 * 65536) never reach 2^31,
\* except the subtraction of HIGHOFFSET, whose result is narrowed to uint16_t:
\* that is the difference modulo 2^16.
U8(x) == x % 256
U16(x) == x % 65536

\* bit n of x
Bit(x, n) == (x \div (2 ^ n)) % 2

VARIABLES
    \* openebdmini.c statics
    om, dm, highgain, volts, amps, watts, loadduty,
    shuntsamples, voltsamples, volthighgainsamples, sample,
    \* hardware written by the program
    ccr1,       \* TIM1_CCR1H:TIM1_CCR1L, the PWM compare value of the load
    fan,        \* PB_ODR bit 2
    uart,       \* the characters of the last line sent by sendstate
    \* position of main's loop and the port bits checkbuttons last read
    pc, portbits,
    \* state.c: its own om, loadduty and dm, and the argument and the result of
    \* the last call of state_changeopmode
    state_om, state_loadduty, state_dm, state_newmode, state_changeok,
    \* environment: the codes the ADC converts, and the run's counters
    adcin, changes, iter

progvars == <<om, dm, highgain, volts, amps, watts, loadduty,
              shuntsamples, voltsamples, volthighgainsamples, sample,
              ccr1, fan, uart, pc, portbits>>
statevars == <<state_om, state_loadduty, state_dm, state_newmode, state_changeok>>
envvars == <<adcin, changes, iter>>
vars == <<progvars, statevars, envvars>>

(***************************************************************************)
(* Load drive                                                              *)
(***************************************************************************)
\* setloadduty: the 16-bit compare value formed by the two byte writes
\* TIM1_CCR1H = (uint8_t)((duty >> 8) & 0xff); TIM1_CCR1L = (uint8_t)(duty & 0xff);
setloadduty(duty) == U8((duty \div 256) % 256) * 256 + U8(duty % 256)

\* turnoffload: loadduty = 1025; setloadduty(loadduty)
turnoffload == [loadduty |-> 1025, ccr1 |-> setloadduty(1025)]

(***************************************************************************)
(* Sampling and measurement (first half of checkstate)                     *)
(***************************************************************************)
RECURSIVE SumTo(_, _)
SumTo(window, i) == IF i < 0 THEN 0 ELSE window[i] + SumTo(window, i - 1)

\* for (i = 0; i < SAMPLES; i++) sum += window[i];   (uint32_t sum)
WindowSum(window) == SumTo(window, SAMPLES - 1)

\* amps = ((shuntsum / SAMPLES) * MICROVOLTSPERSTEP_SHUNT) / 20;
MeasureAmps(shuntsum) ==
    U16(((shuntsum \div SAMPLES) * MICROVOLTSPERSTEP_SHUNT) \div 20)

\* highgainvolts = (((sum / SAMPLES) * MILLIVOLTSPERSTEP_HIGHGAIN) / 10) - HIGHOFFSET;
\* unsigned 32-bit arithmetic narrowed to uint16_t
MeasureHighGainVolts(volthighgainsum) ==
    U16((((volthighgainsum \div SAMPLES) * MILLIVOLTSPERSTEP_HIGHGAIN) \div 10)
        - HIGHOFFSET)

\* lowgainvolts = (voltsum / SAMPLES) * (MILLIVOLTSPERSTEP);
MeasureLowGainVolts(voltsum) ==
    U16((voltsum \div SAMPLES) * MILLIVOLTSPERSTEP)

\* slip: the boundary is exclusive
SelectHighGain_Strict(lowgainvolts, highgainvolts) == lowgainvolts < 6000

\* highgain = lowgainvolts <= 6000;
SelectHighGain(lowgainvolts, highgainvolts) == lowgainvolts <= 6000

\* if (highgain) volts = highgainvolts; else volts = lowgainvolts;
SelectVolts(hg, lowgainvolts, highgainvolts) ==
    IF hg THEN highgainvolts ELSE lowgainvolts

\* wattstemp = ((uint32_t) amps * (uint32_t) volts) / 1000; watts = (uint16_t) wattstemp;
MeasureWatts(a, v) == U16((a * v) \div 1000)

\* slip: the fan also runs at the threshold itself
FanControl_AtThreshold(w) == w >= FANWATTTHRESHOLD

\* if (watts > FANWATTTHRESHOLD) turnonfan(); else turnofffan();
FanControl(w) == w > FANWATTTHRESHOLD

(***************************************************************************)
(* Cutoff and regulation (the switch (om) of checkstate)                   *)
(***************************************************************************)
\* slip: the comparisons are exchanged, the duty follows the current
Regulate_Inverted(a, duty, ccr) ==
    IF a > targetamps
    THEN IF duty > 300
         THEN [loadduty |-> U16(duty - 1), ccr1 |-> setloadduty(U16(duty - 1))]
         ELSE [loadduty |-> duty, ccr1 |-> ccr]
    ELSE IF a < targetamps
         THEN IF duty < 1000
              THEN [loadduty |-> U16(duty + 1), ccr1 |-> setloadduty(U16(duty + 1))]
              ELSE [loadduty |-> duty, ccr1 |-> ccr]
         ELSE [loadduty |-> duty, ccr1 |-> ccr]

\* slip: the lower clamp is tested with >=, so the duty steps below 300
Regulate_NoFloor(a, duty, ccr) ==
    IF a < targetamps
    THEN IF duty >= 300
         THEN [loadduty |-> U16(duty - 1), ccr1 |-> setloadduty(U16(duty - 1))]
         ELSE [loadduty |-> duty, ccr1 |-> ccr]
    ELSE IF a > targetamps
         THEN IF duty < 1000
              THEN [loadduty |-> U16(duty + 1), ccr1 |-> setloadduty(U16(duty + 1))]
              ELSE [loadduty |-> duty, ccr1 |-> ccr]
         ELSE [loadduty |-> duty, ccr1 |-> ccr]

\* the regulator: if (amps < targetamps) { if (loadduty > 300) ... } else if ...
Regulate(a, duty, ccr) ==
    IF a < targetamps
    THEN IF duty > 300
         THEN [loadduty |-> U16(duty - 1), ccr1 |-> setloadduty(U16(duty - 1))]
         ELSE [loadduty |-> duty, ccr1 |-> ccr]
    ELSE IF a > targetamps
         THEN IF duty < 1000
              THEN [loadduty |-> U16(duty + 1), ccr1 |-> setloadduty(U16(duty + 1))]
              ELSE [loadduty |-> duty, ccr1 |-> ccr]
         ELSE [loadduty |-> duty, ccr1 |-> ccr]

\* slip: the cutoff changes the mode but the regulator still steps the duty
CutoffAndRegulate_NoTurnoff(m, v, a, duty, ccr) ==
    IF m = OPMODE_ON
    THEN [om |-> IF v < lvc THEN OPMODE_LVC ELSE m,
          loadduty |-> Regulate(a, duty, ccr).loadduty,
          ccr1 |-> Regulate(a, duty, ccr).ccr1]
    ELSE [om |-> m, loadduty |-> duty, ccr1 |-> ccr]

\* slip: the cutoff is taken in every mode, not only in ON
CutoffAndRegulate_AnyMode(m, v, a, duty, ccr) ==
    IF v < lvc
    THEN [om |-> OPMODE_LVC, loadduty |-> turnoffload.loadduty,
          ccr1 |-> turnoffload.ccr1]
    ELSE IF m = OPMODE_ON
         THEN [om |-> m, loadduty |-> Regulate(a, duty, ccr).loadduty,
               ccr1 |-> Regulate(a, duty, ccr).ccr1]
         ELSE [om |-> m, loadduty |-> duty, ccr1 |-> ccr]

\* switch (om) { case OPMODE_ON: if (volts < lvc) {...} else {...} break; }
CutoffAndRegulate(m, v, a, duty, ccr) ==
    IF m = OPMODE_ON
    THEN IF v < lvc
         THEN [om |-> OPMODE_LVC, loadduty |-> turnoffload.loadduty,
               ccr1 |-> turnoffload.ccr1]
         ELSE [om |-> m, loadduty |-> Regulate(a, duty, ccr).loadduty,
               ccr1 |-> Regulate(a, duty, ccr).ccr1]
    ELSE [om |-> m, loadduty |-> duty, ccr1 |-> ccr]

\* slip: the cursor wraps one slot early, so the last slot is never rewritten
NextSample_Short(cursor) == (cursor + 1) % (SAMPLES - 1)

\* sample = (sample + 1) % SAMPLES;
NextSample(cursor) == (cursor + 1) % SAMPLES

\* slip: the buttons are polled before the line is sent
NextStage_PollFirst(stage) ==
    CASE stage = "checkstate" -> "checkbuttons"
      [] stage = "checkbuttons" -> "sendstate"
      [] stage = "sendstate" -> "checkstate"

\* while (1) { checkstate(); sendstate(); checkbuttons(); updatedisplay(); }
NextStage(stage) ==
    CASE stage = "checkstate" -> "sendstate"
      [] stage = "sendstate" -> "checkbuttons"
      [] stage = "checkbuttons" -> "checkstate"

\* checkstate, with the three codes readadc returns in this iteration
checkstate(in) ==
    /\ pc = "checkstate"
    /\ LET shunt2 == [shuntsamples EXCEPT ![sample] = in.shunt]
           volt2 == [voltsamples EXCEPT ![sample] = in.vin]
           high2 == [volthighgainsamples EXCEPT ![sample] = in.vinhigh]
           a == MeasureAmps(WindowSum(shunt2))
           highgainvolts == MeasureHighGainVolts(WindowSum(high2))
           lowgainvolts == MeasureLowGainVolts(WindowSum(volt2))
           hg == SelectHighGain(lowgainvolts, highgainvolts)
           v == SelectVolts(hg, lowgainvolts, highgainvolts)
           w == MeasureWatts(a, v)
           r == CutoffAndRegulate(om, v, a, loadduty, ccr1)
       IN /\ shuntsamples' = shunt2
          /\ voltsamples' = volt2
          /\ volthighgainsamples' = high2
          /\ sample' = NextSample(sample)
          /\ amps' = a
          /\ highgain' = hg
          /\ volts' = v
          /\ watts' = w
          /\ fan' = FanControl(w)
          /\ om' = r.om
          /\ loadduty' = r.loadduty
          /\ ccr1' = r.ccr1
    /\ pc' = NextStage("checkstate")
    /\ UNCHANGED <<dm, uart, portbits>>
    /\ UNCHANGED statevars

(***************************************************************************)
(* Telemetry (split, splitandprintvalue, sendstate)                        *)
(***************************************************************************)
\* second loop of split: for (; digits > 0; digits--) buffer[digits - 1] = 0;
RECURSIVE splitfill(_, _)
splitfill(buffer, digits) ==
    IF digits > 0
    THEN splitfill([buffer EXCEPT ![digits - 1] = 0], digits - 1)
    ELSE buffer

\* slip: the digits above the most significant one are not zeroed
RECURSIVE split_NoFill(_, _, _)
split_NoFill(value, buffer, digits) ==
    IF digits > 0
    THEN LET tmp == value % 10
             buffer2 == [buffer EXCEPT ![digits - 1] = tmp]
             value2 == U16(value - tmp)
         IN IF value2 = 0
            THEN buffer2
            ELSE split_NoFill(value2 \div 10, buffer2, digits - 1)
    ELSE buffer

\* split(value, buffer, digits): the buffer it leaves
RECURSIVE split(_, _, _)
split(value, buffer, digits) ==
    IF digits > 0
    THEN LET tmp == value % 10
             buffer2 == [buffer EXCEPT ![digits - 1] = tmp]
             value2 == U16(value - tmp)
         IN IF value2 = 0
            THEN splitfill(buffer2, digits - 1)
            ELSE split(value2 \div 10, buffer2, digits - 1)
    ELSE splitfill(buffer, digits)

\* splitandprintvalue: uint16_t splittmp[6] is not initialised (junk);
\* the six characters passed to uart_putch
splitandprintvalue(value, junk) ==
    LET splittmp == split(value, [i \in 0..5 |-> junk], 6)
    IN [i \in 1..6 |-> splittmp[i - 1] + 48]

\* the string literals of sendstate, as character codes
STR_off == <<111, 102, 102>>
STR_set == <<115, 101, 116>>
STR_on == <<111, 110>>
STR_lvc == <<108, 118, 99>>
STR_sep == <<44>>
STR_crlf == <<13, 10>>

\* switch (om) of sendstate
ModeToken(m) ==
    CASE m = OPMODE_OFF -> STR_off
      [] m = OPMODE_SET -> STR_set
      [] m = OPMODE_ON -> STR_on
      [] m = OPMODE_LVC -> STR_lvc
      [] OTHER -> <<>>

\* values an uninitialised uint16_t may hold
Junk == {0, 7, 65535}

sendstate(junk) ==
    /\ pc = "sendstate"
    /\ uart' = ModeToken(om) \o STR_sep
               \o splitandprintvalue(volts, junk) \o STR_sep
               \o splitandprintvalue(amps, junk) \o STR_sep
               \o splitandprintvalue(watts, junk) \o STR_sep
               \o splitandprintvalue(targetamps, junk) \o STR_sep
               \o splitandprintvalue(lvc, junk) \o STR_sep
               \o splitandprintvalue(loadduty, junk) \o STR_crlf
    /\ pc' = NextStage("sendstate")
    /\ UNCHANGED <<om, dm, highgain, volts, amps, watts, loadduty,
                   shuntsamples, voltsamples, volthighgainsamples, sample,
                   ccr1, fan, portbits>>
    /\ UNCHANGED statevars

(***************************************************************************)
(* Buttons (checkbuttons)                                                  *)
(***************************************************************************)
\* the values of *PD_IDR on bits 3 (start) and 7 (mode); a low bit is a press
PortBits == {0, 8, 128, 136}

\* slip: start-pressed in ON leaves the duty as it is
StartButton_NoTurnoff(bits, m, duty, ccr) ==
    IF Bit(bits, 3) = 0
    THEN CASE m = OPMODE_OFF -> [om |-> OPMODE_ON, loadduty |-> duty, ccr1 |-> ccr]
           [] m = OPMODE_ON -> [om |-> OPMODE_OFF, loadduty |-> duty, ccr1 |-> ccr]
           [] OTHER -> [om |-> m, loadduty |-> duty, ccr1 |-> ccr]
    ELSE [om |-> m, loadduty |-> duty, ccr1 |-> ccr]

\* slip: start-pressed restarts the load from LVC as it does from OFF
StartButton_FromLvc(bits, m, duty, ccr) ==
    IF Bit(bits, 3) = 0
    THEN CASE m \in {OPMODE_OFF, OPMODE_LVC} ->
                [om |-> OPMODE_ON, loadduty |-> duty, ccr1 |-> ccr]
           [] m = OPMODE_ON -> [om |-> OPMODE_OFF, loadduty |-> turnoffload.loadduty,
                                ccr1 |-> turnoffload.ccr1]
           [] OTHER -> [om |-> m, loadduty |-> duty, ccr1 |-> ccr]
    ELSE [om |-> m, loadduty |-> duty, ccr1 |-> ccr]

\* if ((portbits & (1 << 3)) == 0) switch (om) ...
StartButton(bits, m, duty, ccr) ==
    IF Bit(bits, 3) = 0
    THEN CASE m = OPMODE_OFF -> [om |-> OPMODE_ON, loadduty |-> duty, ccr1 |-> ccr]
           [] m = OPMODE_ON -> [om |-> OPMODE_OFF, loadduty |-> turnoffload.loadduty,
                                ccr1 |-> turnoffload.ccr1]
           [] OTHER -> [om |-> m, loadduty |-> duty, ccr1 |-> ccr]
    ELSE [om |-> m, loadduty |-> duty, ccr1 |-> ccr]

\* slip: the mode button advances the display mode in ON as well
ModeButton_InOn(bits, m, d) ==
    IF Bit(bits, 7) = 0
    THEN CASE m \in {OPMODE_OFF, OPMODE_ON} ->
                [om |-> m, dm |-> IF d + 1 = DISPMODE_END THEN 0 ELSE d + 1]
           [] m = OPMODE_LVC -> [om |-> OPMODE_OFF, dm |-> d]
           [] OTHER -> [om |-> m, dm |-> d]
    ELSE [om |-> m, dm |-> d]

\* if ((portbits & (1 << 7)) == 0) switch (om) ...
ModeButton(bits, m, d) ==
    IF Bit(bits, 7) = 0
    THEN CASE m = OPMODE_OFF ->
                [om |-> m, dm |-> IF d + 1 = DISPMODE_END THEN 0 ELSE d + 1]
           [] m = OPMODE_LVC -> [om |-> OPMODE_OFF, dm |-> d]
           [] OTHER -> [om |-> m, dm |-> d]
    ELSE [om |-> m, dm |-> d]

checkbuttons(bits) ==
    /\ pc = "checkbuttons"
    /\ portbits' = bits
    /\ LET s == StartButton(bits, om, loadduty, ccr1)
           b == ModeButton(bits, s.om, dm)
       IN /\ om' = b.om
          /\ dm' = b.dm
          /\ loadduty' = s.loadduty
          /\ ccr1' = s.ccr1
    /\ pc' = NextStage("checkbuttons")
    /\ UNCHANGED <<highgain, volts, amps, watts,
                   shuntsamples, voltsamples, volthighgainsamples, sample,
                   fan, uart>>
    /\ UNCHANGED statevars

(***************************************************************************)
(* state.c                                                                 *)
(***************************************************************************)
\* slip: a request for ON is accepted from LVC as it is from OFF
changeok_LvcOn(current, newmode) ==
    CASE current = OPMODE_ON -> newmode = OPMODE_OFF
      [] current = OPMODE_OFF -> newmode = OPMODE_ON
      [] current = OPMODE_LVC -> newmode \in {OPMODE_OFF, OPMODE_ON}
      [] OTHER -> FALSE

\* bool state_changeopmode(operationmode newmode): the value of changeok
changeok(current, newmode) ==
    CASE current = OPMODE_ON -> newmode = OPMODE_OFF
      [] current = OPMODE_OFF -> newmode = OPMODE_ON
      [] current = OPMODE_LVC -> newmode = OPMODE_OFF
      [] OTHER -> FALSE

state_changeopmode(newmode) ==
    /\ state_newmode' = newmode
    /\ state_changeok' = changeok(state_om, newmode)
    /\ state_om' = IF changeok(state_om, newmode) THEN newmode ELSE state_om
    /\ UNCHANGED <<state_loadduty, state_dm>>
    /\ UNCHANGED progvars
    /\ UNCHANGED envvars

(***************************************************************************)
(* The program from power-up                                               *)
(***************************************************************************)
\* analog sources: the codes of the shunt, low-gain and high-gain channels
Source(s, l, h) == [shunt |-> s, vin |-> l, vinhigh |-> h]

\* The windows start at zero, so after k <= 12 iterations of a steady code r the
\* smoothed code is (k * r) \div 12: after four iterations the sources below
\* give the low-gain codes 300 and 301 (the gain boundary), amps on both sides
\* of targetamps, volts on both sides of lvc, and watts 2500 and 2501.
Sources == { Source(0, 0, 0),           \* nothing connected
             Source(294, 903, 1023),    \* current below target, low gain
             Source(1005, 900, 1023),   \* current above target, 2501 mW
             Source(1008, 900, 1020),   \* current above target, 2500 mW
             Source(295, 95, 295) }     \* 1.9 V source

\* state.c's initialisers
InitState ==
    /\ state_om = OPMODE_OFF
    /\ state_loadduty = 800
    /\ state_dm = VOLTS
    /\ state_newmode = OPMODE_OFF
    /\ state_changeok = FALSE

\* the initialisers of openebdmini.c and main up to its loop:
\* initload() leaves the compare register at reloadvalue, turnonfan() the fan on
InitProgram ==
    /\ om = OPMODE_OFF
    /\ dm = VOLTS
    /\ highgain = FALSE
    /\ volts = 0
    /\ amps = 0
    /\ watts = 0
    /\ loadduty = 800
    /\ shuntsamples = [i \in 0..(SAMPLES - 1) |-> 0]
    /\ voltsamples = [i \in 0..(SAMPLES - 1) |-> 0]
    /\ volthighgainsamples = [i \in 0..(SAMPLES - 1) |-> 0]
    /\ sample = 0
    /\ ccr1 = setloadduty(reloadvalue)
    /\ fan = TRUE
    /\ uart = <<>>
    /\ pc = "checkstate"
    /\ portbits = 136

Init ==
    /\ InitProgram
    /\ InitState
    /\ adcin \in Sources
    /\ changes = 0
    /\ iter = 0

\* one pass of checkstate; the source at the pins changes at most MaxChanges times
Sample ==
    /\ iter < MaxIter
    /\ \E in \in Sources :
          /\ in = adcin \/ changes < MaxChanges
          /\ checkstate(in)
          /\ adcin' = in
          /\ changes' = IF in = adcin THEN changes ELSE changes + 1
    /\ iter' = iter + 1

Send == (\E junk \in Junk : sendstate(junk)) /\ UNCHANGED envvars

Poll == (\E bits \in PortBits : checkbuttons(bits)) /\ UNCHANGED envvars

Next == Sample \/ Send \/ Poll

Spec == Init /\ [][Next]_vars

(***************************************************************************)
(* The program after a steady source has filled the sample windows         *)
(***************************************************************************)
\* smoothed codes of interest: amps on both sides of targetamps, volts on both
\* sides of lvc, the gain boundary, the fan threshold, the ends of the range
WarmShunt == {0, 112, 113, 294, 295, 1023}
WarmVolt == { <<0, 0>>, <<0, 3>>, <<0, 4>>, <<100, 310>>, <<100, 311>>,
              <<100, 1005>>, <<100, 1016>>, <<300, 1023>>, <<301, 1023>>,
              <<1023, 1023>> }
WarmSources == { Source(s, v[1], v[2]) : s \in WarmShunt, v \in WarmVolt }

\* what twelve or more iterations in OFF with a steady source and no button
\* pressed leave: full windows, the cursor back at 0, the measurements and
\* the line of the last iteration
InitWarm ==
    /\ adcin \in WarmSources
    /\ changes = 0
    /\ iter = 0
    /\ InitState
    /\ om = OPMODE_OFF
    /\ dm = VOLTS
    /\ loadduty = 800
    /\ ccr1 = setloadduty(reloadvalue)
    /\ shuntsamples = [i \in 0..(SAMPLES - 1) |-> adcin.shunt]
    /\ voltsamples = [i \in 0..(SAMPLES - 1) |-> adcin.vin]
    /\ volthighgainsamples = [i \in 0..(SAMPLES - 1) |-> adcin.vinhigh]
    /\ sample = 0
    /\ amps = MeasureAmps(WindowSum(shuntsamples))
    /\ highgain = SelectHighGain(MeasureLowGainVolts(WindowSum(voltsamples)),
                                 MeasureHighGainVolts(WindowSum(volthighgainsamples)))
    /\ volts = SelectVolts(highgain, MeasureLowGainVolts(WindowSum(voltsamples)),
                           MeasureHighGainVolts(WindowSum(volthighgainsamples)))
    /\ watts = MeasureWatts(amps, volts)
    /\ fan = FanControl(watts)
    /\ uart = ModeToken(om) \o STR_sep
              \o splitandprintvalue(volts, 0) \o STR_sep
              \o splitandprintvalue(amps, 0) \o STR_sep
              \o splitandprintvalue(watts, 0) \o STR_sep
              \o splitandprintvalue(targetamps, 0) \o STR_sep
              \o splitandprintvalue(lvc, 0) \o STR_sep
              \o splitandprintvalue(loadduty, 0) \o STR_crlf
    /\ pc = "checkstate"
    /\ portbits = 136

\* one pass of checkstate with the source unchanged
SampleWarm ==
    /\ iter < MaxIter
    /\ checkstate(adcin)
    /\ iter' = iter + 1
    /\ UNCHANGED <<adcin, changes>>

NextWarm == SampleWarm \/ Send \/ Poll

SpecWarm == InitWarm /\ [][NextWarm]_vars

(***************************************************************************)
(* state_changeopmode called from any mode with any request                *)
(***************************************************************************)
InitChange ==
    /\ InitProgram
    /\ adcin = Source(0, 0, 0)
    /\ changes = 0
    /\ iter = 0
    /\ state_om \in OperationModes
    /\ state_loadduty \in {300, 800, 1000, 1025}
    /\ state_dm \in {VOLTS, AMPS, AMPHOURS, WATTS}
    /\ state_newmode = OPMODE_OFF
    /\ state_changeok = FALSE

Change == \E newmode \in OperationModes : state_changeopmode(newmode)

SpecState == InitChange /\ [][Change]_vars

(***************************************************************************)
(* Regulation towards a target the current never reaches                   *)
(***************************************************************************)
\* steady sources with amps < targetamps and volts >= lvc, on either gain path
ConvSources == { Source(s, v[1], v[2]) :
                    s \in {0, 294},
                    v \in { <<100, 311>>, <<300, 1023>>, <<1023, 1023>> } }

\* the load has just been switched on by the start button after the windows
\* were filled in OFF: ON with the initial loadduty 800
InitConv ==
    /\ adcin \in ConvSources
    /\ changes = 0
    /\ iter = 0
    /\ InitState
    /\ om = OPMODE_ON
    /\ dm = VOLTS
    /\ loadduty = 800
    /\ ccr1 = setloadduty(reloadvalue)
    /\ shuntsamples = [i \in 0..(SAMPLES - 1) |-> adcin.shunt]
    /\ voltsamples = [i \in 0..(SAMPLES - 1) |-> adcin.vin]
    /\ volthighgainsamples = [i \in 0..(SAMPLES - 1) |-> adcin.vinhigh]
    /\ sample = 0
    /\ amps = MeasureAmps(WindowSum(shuntsamples))
    /\ highgain = SelectHighGain(MeasureLowGainVolts(WindowSum(voltsamples)),
                                 MeasureHighGainVolts(WindowSum(volthighgainsamples)))
    /\ volts = SelectVolts(highgain, MeasureLowGainVolts(WindowSum(voltsamples)),
                           MeasureHighGainVolts(WindowSum(volthighgainsamples)))
    /\ watts = MeasureWatts(amps, volts)
    /\ fan = FanControl(watts)
    /\ uart = ModeToken(OPMODE_OFF) \o STR_sep
              \o splitandprintvalue(volts, 0) \o STR_sep
              \o splitandprintvalue(amps, 0) \o STR_sep
              \o splitandprintvalue(watts, 0) \o STR_sep
              \o splitandprintvalue(targetamps, 0) \o STR_sep
              \o splitandprintvalue(lvc, 0) \o STR_sep
              \o splitandprintvalue(loadduty, 0) \o STR_crlf
    /\ pc = "checkstate"
    /\ portbits = 128

\* checkstate with the source unchanged, for as long as the loop runs
SampleConv == checkstate(adcin) /\ UNCHANGED envvars

\* checkbuttons reading no button pressed
PollIdle == checkbuttons(136) /\ UNCHANGED envvars

NextConv == SampleConv \/ Send \/ PollIdle

\* main's while (1) never stops and every step of it completes
SpecConv == InitConv /\ [][NextConv]_vars /\ WF_vars(NextConv)

(***************************************************************************)
(* sendstate on any 16-bit value and any mode                              *)
(***************************************************************************)
\* sendstate is about to run: either volts is any uint16_t, or the mode is any
\* of the four and the fields take values that tell them apart
InitFmt ==
    /\ InitState
    /\ adcin = Source(0, 0, 0)
    /\ changes = 0
    /\ iter = 0
    /\ dm = VOLTS
    /\ highgain = TRUE
    /\ shuntsamples = [i \in 0..(SAMPLES - 1) |-> 0]
    /\ voltsamples = [i \in 0..(SAMPLES - 1) |-> 0]
    /\ volthighgainsamples = [i \in 0..(SAMPLES - 1) |-> 0]
    /\ sample = 0
    /\ ccr1 = setloadduty(reloadvalue)
    /\ fan = FALSE
    /\ uart = <<>>
    /\ pc = "sendstate"
    /\ portbits = 136
    /\ \/ /\ om = OPMODE_OFF
          /\ volts \in 0..(2 ^ 16 - 1)
          /\ amps = 0
          /\ watts = 0
          /\ loadduty = 800
       \/ /\ om \in OperationModes
          /\ volts \in {6, 12000, 65516}
          /\ amps \in {0, 999, 3478}
          /\ watts \in {9, 31256}
          /\ loadduty \in {300, 800, 1025}

SpecFmt == InitFmt /\ [][Send]_vars

\* ---------------------------------------------------------------------------
\* Smoothing: the loop is entered with windows left by earlier readings and the
\* cursor anywhere, and the source then holds one code per channel.

\* iterations of the loop followed under a source that holds still
MaxSmooth == 13

\* window contents left by earlier readings: empty, full scale, a ramp, a comb
PriorWindows ==
    { [i \in 0..(SAMPLES - 1) |-> 0],
      [i \in 0..(SAMPLES - 1) |-> 1023],
      [i \in 0..(SAMPLES - 1) |-> i * 93],
      [i \in 0..(SAMPLES - 1) |-> IF i % 2 = 0 THEN 1023 ELSE 0] }

\* the codes the source then holds, one per channel
SmoothSources ==
    { Source(0, 0, 0), Source(1, 1023, 511), Source(1023, 1, 0),
      Source(511, 511, 1023) }

InitSmooth ==
    /\ adcin \in SmoothSources
    /\ changes = 0
    /\ iter = 0
    /\ InitState
    /\ om = OPMODE_OFF
    /\ dm = VOLTS
    /\ loadduty = 800
    /\ ccr1 = setloadduty(reloadvalue)
    /\ shuntsamples \in PriorWindows
    /\ voltsamples \in PriorWindows
    /\ volthighgainsamples = [i \in 0..(SAMPLES - 1) |-> voltsamples[SAMPLES - 1 - i]]
    /\ sample \in 0..(SAMPLES - 1)
    /\ amps = MeasureAmps(WindowSum(shuntsamples))
    /\ highgain = SelectHighGain(MeasureLowGainVolts(WindowSum(voltsamples)),
                                 MeasureHighGainVolts(WindowSum(volthighgainsamples)))
    /\ volts = SelectVolts(highgain, MeasureLowGainVolts(WindowSum(voltsamples)),
                           MeasureHighGainVolts(WindowSum(volthighgainsamples)))
    /\ watts = MeasureWatts(amps, volts)
    /\ fan = FanControl(watts)
    /\ uart = ModeToken(om) \o STR_sep
              \o splitandprintvalue(volts, 0) \o STR_sep
              \o splitandprintvalue(amps, 0) \o STR_sep
              \o splitandprintvalue(watts, 0) \o STR_sep
              \o splitandprintvalue(targetamps, 0) \o STR_sep
              \o splitandprintvalue(lvc, 0) \o STR_sep
              \o splitandprintvalue(loadduty, 0) \o STR_crlf
    /\ pc = "checkstate"
    /\ portbits = 136

\* one pass of checkstate with the source held
SampleSmooth ==
    /\ iter < MaxSmooth
    /\ checkstate(adcin)
    /\ iter' = iter + 1
    /\ UNCHANGED <<adcin, changes>>

NextSmooth == SampleSmooth \/ Send \/ PollIdle

SpecSmooth == InitSmooth /\ [][NextSmooth]_vars


(***************************************************************************)
(* Properties                                                              *)
(***************************************************************************)
StartPressed(bits) == Bit(bits, 3) = 0
ModePressed(bits) == Bit(bits, 7) = 0
\* the mode token that opens the last line sent
LineMode(m) == Len(uart) >= Len(ModeToken(m)) + 1
               /\ SubSeq(uart, 1, Len(ModeToken(m)) + 1) = ModeToken(m) \o STR_sep

\* C1: a pass of checkstate that starts in ON and computes volts < lvc ends
\* in LVC with loadduty (and the compare register) at 1025, whatever amps and
\* the previous loadduty are: the regulator's step is not applied.
C1_SafetyPrecedence ==
    [][(pc = "checkstate" /\ om = OPMODE_ON /\ volts' < lvc)
        => (om' = OPMODE_LVC /\ loadduty' = 1025 /\ ccr1' = 1025)]_vars

\* the load was switched on by the last poll (the line before it said off),
\* and the pass of checkstate that followed cut it off while the regulator's
\* rule asked for a step down from 800
C1_Witness ==
    /\ pc = "sendstate"
    /\ LineMode(OPMODE_OFF) /\ StartPressed(portbits)
    /\ om = OPMODE_LVC
    /\ volts < lvc /\ amps < targetamps
    /\ loadduty = 1025

\* C2 as stated: outside ON loadduty is always 1025, from the initial state on.
C2_OffMeansDisabled == om # OPMODE_ON => loadduty = 1025

\* C2 amended: outside ON loadduty is 1025, except in OFF before the load is
\* first switched on, where loadduty has its initial value 800 and the compare
\* register still holds initload's reload value.
C2_OffMeansDisabledOnceSwitched ==
    om # OPMODE_ON =>
        \/ loadduty = 1025
        \/ (om = OPMODE_OFF /\ loadduty = 800 /\ ccr1 = reloadvalue)

\* back in OFF at an iteration boundary after the load was on
C2_Witness ==
    /\ pc = "checkstate"
    /\ om = OPMODE_OFF
    /\ LineMode(OPMODE_ON) /\ StartPressed(portbits)
    /\ loadduty = 1025

\* C3: in ON loadduty lies in [300, 1000].
C3_DutyClamp == om = OPMODE_ON => (loadduty >= 300 /\ loadduty <= 1000)

\* C4: from LVC every step leaves the mode LVC, except a poll that reads the
\* mode button pressed, which ends in OFF (whatever the start button does);
\* loadduty is 1025 before and after every such step.
C4_LvcLatched ==
    [][om = OPMODE_LVC =>
        /\ loadduty = 1025 /\ loadduty' = 1025
        /\ IF pc = "checkbuttons" /\ ModePressed(portbits')
           THEN om' = OPMODE_OFF
           ELSE om' = OPMODE_LVC]_vars

\* the cutoff was acknowledged by a poll that read both buttons pressed
C4_Witness ==
    /\ pc = "checkstate"
    /\ LineMode(OPMODE_LVC)
    /\ StartPressed(portbits) /\ ModePressed(portbits)
    /\ om = OPMODE_OFF
    /\ loadduty = 1025

\* C5: every change of om made by checkstate or checkbuttons is OFF->ON or
\* ON->OFF on start-pressed, LVC->OFF on mode-pressed, or ON->LVC on
\* volts < lvc.
C5_ModeLegality ==
    [][om' # om =>
        \/ (pc = "checkstate" /\ om = OPMODE_ON /\ om' = OPMODE_LVC /\ volts' < lvc)
        \/ (pc = "checkbuttons" /\ StartPressed(portbits')
              /\ om = OPMODE_OFF /\ om' = OPMODE_ON)
        \/ (pc = "checkbuttons" /\ StartPressed(portbits')
              /\ om = OPMODE_ON /\ om' = OPMODE_OFF)
        \/ (pc = "checkbuttons" /\ ModePressed(portbits')
              /\ om = OPMODE_LVC /\ om' = OPMODE_OFF)]_vars

\* the load was switched on again after a cutoff had been acknowledged
C5_Witness ==
    /\ pc = "checkstate"
    /\ om = OPMODE_ON
    /\ LineMode(OPMODE_OFF) /\ StartPressed(portbits)
    /\ loadduty = 1025

\* the (current, requested) pairs of the transition tables
TablePairs == { <<OPMODE_OFF, OPMODE_ON>>, <<OPMODE_ON, OPMODE_OFF>>,
                <<OPMODE_LVC, OPMODE_OFF>>, <<OPMODE_OFF, OPMODE_OFF>>,
                <<OPMODE_ON, OPMODE_LVC>> }

\* C6: a call of state_changeopmode whose (current, requested) pair is not in
\* the transition tables returns false and leaves om, and the rest of
\* state.c's state, unchanged.
C6_IllegalRejected ==
    [][<<state_om, state_newmode'>> \notin TablePairs
        => /\ state_changeok' = FALSE
           /\ state_om' = state_om
           /\ UNCHANGED <<state_loadduty, state_dm>>]_vars

\* a request for ON was made in LVC and refused
C6_Witness ==
    /\ state_om = OPMODE_LVC
    /\ state_newmode = OPMODE_ON
    /\ state_changeok = FALSE

\* C7: from ON with loadduty 800, amps < targetamps and volts >= lvc in every
\* iteration and no button pressed, each pass of checkstate lowers loadduty by
\* exactly 1 until it is 300 and leaves it at 300 afterwards, no other step
\* changes it, it is never below 300, and it is eventually 300 for ever.
C7_RegulationConvergence ==
    /\ [][IF pc = "checkstate"
          THEN loadduty' = (IF loadduty > 300 THEN loadduty - 1 ELSE 300)
          ELSE loadduty' = loadduty]_vars
    /\ [](om = OPMODE_ON /\ loadduty >= 300 /\ loadduty <= 800)
    /\ <>[](loadduty = 300)

\* the duty has reached the lower clamp and the line reports it
C7_Witness ==
    /\ pc = "checkbuttons"
    /\ om = OPMODE_ON
    /\ amps < targetamps /\ volts >= lvc
    /\ loadduty = 300 /\ ccr1 = 300
    /\ SubSeq(uart, Len(uart) - 7, Len(uart) - 2) = <<48, 48, 48, 51, 48, 48>>

\* C8: after every pass of checkstate highgain is true exactly when the smoothed
\* low-gain code times 20 is at most 6000, and volts is the high-gain value
\* when highgain is true and the low-gain value otherwise.
C8_GainBoundary ==
    pc = "sendstate" =>
        LET lowcode == SumTo(voltsamples, 11) \div 12
            highcode == SumTo(volthighgainsamples, 11) \div 12
        IN /\ highgain = (lowcode * 20 <= 6000)
           /\ volts = IF highgain
                      THEN (((highcode * 65) \div 10) - 20) % 65536
                      ELSE lowcode * 20

\* the low-gain value is exactly 6000 and the high-gain path is reported,
\* although the high-gain value itself is above 6000
C8_Witness ==
    /\ pc = "sendstate"
    /\ SumTo(voltsamples, 11) \div 12 = 300
    /\ highgain = TRUE
    /\ volts = 6629

\* C9: after every pass of checkstate the fan is on exactly when that pass's
\* watts is greater than 2500.
C9_ThermalThreshold == pc = "sendstate" => (fan <=> watts > 2500)

\* the load is on at 2501 mW and the fan runs
C9_Witness ==
    /\ pc = "sendstate"
    /\ om = OPMODE_ON
    /\ watts = 2501
    /\ fan = TRUE

\* the six decimal digits of v, most significant first, as characters
C10_Dec6(v) == [i \in 1..6 |-> 48 + ((v \div (10 ^ (6 - i))) % 10)]

\* the mode token, as characters
C10_Token(m) ==
    CASE m = 0 -> <<111, 102, 102>>
      [] m = 1 -> <<115, 101, 116>>
      [] m = 2 -> <<111, 110>>
      [] m = 3 -> <<108, 118, 99>>

\* C10: the line sent by sendstate is the mode token (off, set, on, lvc), then
\* volts, amps, watts, targetamps, lvc and loadduty in that order, each after a
\* comma and written as exactly six decimal digits, most significant first,
\* whose value is the field's (0 is 000000), then CR LF.
C10_TelemetryFormat ==
    pc = "checkbuttons" =>
        uart = C10_Token(om) \o <<44>> \o C10_Dec6(volts)
                             \o <<44>> \o C10_Dec6(amps)
                             \o <<44>> \o C10_Dec6(watts)
                             \o <<44>> \o C10_Dec6(1000)
                             \o <<44>> \o C10_Dec6(2000)
                             \o <<44>> \o C10_Dec6(loadduty)
                             \o <<13, 10>>

\* the line off,000000,000000,000000,001000,002000,000800 CR LF was sent
C10_Witness ==
    /\ pc = "checkbuttons"
    /\ om = OPMODE_OFF /\ volts = 0 /\ amps = 0 /\ watts = 0 /\ loadduty = 800
    /\ uart = <<111, 102, 102, 44, 48, 48, 48, 48, 48, 48, 44,
                48, 48, 48, 48, 48, 48, 44, 48, 48, 48, 48, 48, 48, 44,
                48, 48, 49, 48, 48, 48, 44, 48, 48, 50, 48, 48, 48, 44,
                48, 48, 48, 56, 48, 48, 13, 10>>


\* the smoothed value of a channel: the sum of its twelve slots over twelve
Smoothed(window) == SumTo(window, SAMPLES - 1) \div SAMPLES

\* C11: once the source has held one code per channel for twelve consecutive
\* iterations, whatever the windows held before and wherever the shared cursor
\* stood, the smoothed value of each of the three channels is exactly that
\* code, and the measurements of the iteration are those of that code.
C11_SmoothingConvergence ==
    (iter >= SAMPLES /\ pc # "checkstate") =>
        /\ Smoothed(shuntsamples) = adcin.shunt
        /\ Smoothed(voltsamples) = adcin.vin
        /\ Smoothed(volthighgainsamples) = adcin.vinhigh
        /\ amps = (adcin.shunt * 68) \div 20
        /\ volts = IF adcin.vin * 20 <= 6000
                   THEN (((adcin.vinhigh * 65) \div 10) - 20) % (2 ^ 16)
                   ELSE adcin.vin * 20

\* twelve iterations after a start from full-scale windows with the cursor in
\* mid-window, all three channels read the held codes 1, 1023 and 511
C11_Witness ==
    /\ iter = SAMPLES
    /\ pc = "sendstate"
    /\ sample = 5
    /\ adcin = Source(1, 1023, 511)
    /\ Smoothed(shuntsamples) = 1
    /\ Smoothed(voltsamples) = 1023
    /\ Smoothed(volthighgainsamples) = 511


\* C12: an iteration that starts in ON and selects the high-gain path ends in
\* LVC with loadduty = 1025 whenever the millivolt value
\* ((smoothed high-gain code * 65) / 10) - 20, taken as an ordinary integer, is
\* below lvc; smoothed codes 0 to 3, where that value is negative, included.
C12_CutoffCoversLowEnd ==
    [][(/\ pc = "checkstate"
        /\ om = OPMODE_ON
        /\ highgain'
        /\ ((Smoothed(volthighgainsamples') * 65) \div 10) - 20 < lvc)
       => (om' = OPMODE_LVC /\ loadduty' = 1025)]_vars


\* C13: every change of mode the main loop performs, from m to m', the
\* automatic one from ON to LVC included, is one state_changeopmode accepts:
\* called with m' while its mode is m it answers true (and sets the mode m').
C13_LoopAgreesWithChangeopmode ==
    [][om' # om => changeok(om, om')]_vars


\* C14: an iteration that starts in ON and measures volts >= lvc leaves
\* loadduty one lower if amps < targetamps and it was above 300, one higher
\* if amps > targetamps and it was below 1000, and unchanged otherwise; an
\* iteration that starts in OFF, SET or LVC leaves loadduty and the mode as
\* checkstate found them.
C14_RegulatorStepAndFrame ==
    [][pc = "checkstate" =>
         /\ (om = OPMODE_ON /\ volts' >= lvc) =>
              /\ om' = OPMODE_ON
              /\ loadduty' = IF amps' < targetamps /\ loadduty > 300
                             THEN loadduty - 1
                             ELSE IF amps' > targetamps /\ loadduty < 1000
                                  THEN loadduty + 1
                                  ELSE loadduty
         /\ om # OPMODE_ON => (loadduty' = loadduty /\ om' = om)]_vars

\* the regulator has stepped the duty up from 800 in ON, and the iteration of
\* an earlier line (sent in OFF) left 800 alone
C14_Witness ==
    /\ pc = "sendstate"
    /\ om = OPMODE_ON
    /\ volts >= lvc
    /\ amps > targetamps
    /\ loadduty = 801
    /\ iter >= 2


\* C15: for every combination of smoothed codes the 16-bit watts checkstate
\* stores is the integer (amps * volts) / 1000 itself: the narrowing of the
\* 32-bit product to 16 bits loses nothing.
C15_WattsExact ==
    pc = "sendstate" => watts = (amps * volts) \div 1000

\* C16: whenever the high-gain path is selected, the 16-bit volts checkstate
\* stores is ((smoothed high-gain code * 65) / 10) - 20 computed over the
\* integers, for every smoothed code 0 to 1023, and so is at most 6629.
C16_HighGainNeverWraps ==
    (pc = "sendstate" /\ highgain) =>
        /\ volts = ((Smoothed(volthighgainsamples) * 65) \div 10) - 20
        /\ volts <= 6629


\* the line opens with the token of mode m and closes with duty in six digits
C17_LineReports(line, m, duty) ==
    /\ Len(line) >= Len(C10_Token(m)) + 9
    /\ SubSeq(line, 1, Len(C10_Token(m)) + 1) = C10_Token(m) \o <<44>>
    /\ SubSeq(line, Len(line) - 8, Len(line)) = <<44>> \o C10_Dec6(duty) \o <<13, 10>>

\* C17: in every iteration the line is sent after checkstate and before the
\* buttons are polled: it reports the mode and loadduty as that iteration's
\* cutoff and regulation left them, and neither checkstate nor the poll that
\* follows touches it. So the iteration in which the cutoff trips reports lvc
\* with 001025, and a start press that switches the load off in one iteration
\* shows as off with 001025 only in the line of the next.
C17_StageOrdering ==
    [][/\ pc = "checkstate" => (pc' = "sendstate" /\ uart' = uart)
       /\ pc = "sendstate" =>
            /\ pc' = "checkbuttons"
            /\ om' = om /\ loadduty' = loadduty
            /\ C17_LineReports(uart', om, loadduty)
       /\ pc = "checkbuttons" => (pc' = "checkstate" /\ uart' = uart)
       /\ (pc = "sendstate" /\ LineMode(OPMODE_ON) /\ om = OPMODE_LVC) =>
            C17_LineReports(uart', OPMODE_LVC, 1025)]_vars

\* a start press has just switched the load off, and the last line, sent
\* before the poll, still reports on with the regulated duty
C17_Witness ==
    /\ pc = "checkstate"
    /\ StartPressed(portbits)
    /\ om = OPMODE_OFF
    /\ loadduty = 1025
    /\ \E d \in {799, 801} : C17_LineReports(uart, OPMODE_ON, d)


\* the display mode after d in the cycle VOLTS, AMPS, AMPHOURS, WATTS, VOLTS
C18_NextDisplay(d) ==
    CASE d = VOLTS -> AMPS
      [] d = AMPS -> AMPHOURS
      [] d = AMPHOURS -> WATTS
      [] d = WATTS -> VOLTS

\* C18: a poll that begins in ON, SET or LVC leaves dm unchanged whatever
\* combination of the two buttons it reads, both pressed together included; a
\* poll that begins in OFF and reads the mode button alone pressed advances dm
\* by one step of the cycle VOLTS, AMPS, AMPHOURS, WATTS, VOLTS and leaves the
\* mode OFF.
C18_DisplayOnlyWhileOff ==
    [][pc = "checkbuttons" =>
         /\ om # OPMODE_OFF => dm' = dm
         /\ (om = OPMODE_OFF /\ ModePressed(portbits') /\ ~StartPressed(portbits')) =>
              (dm' = C18_NextDisplay(dm) /\ om' = OPMODE_OFF)]_vars

\* C18, amended: a poll that begins in SET or LVC leaves dm unchanged whatever
\* it reads, and so does a poll that begins in ON unless it reads both buttons
\* pressed: then the start button switches the load off first and the mode
\* button, handled after it with the mode already OFF, advances dm by one
\* step. A poll that begins in OFF and reads the mode button alone pressed
\* advances dm by one step of the cycle and leaves the mode OFF.
C18_DisplayWhileOffWhenHandled ==
    [][pc = "checkbuttons" =>
         /\ (om # OPMODE_OFF
             /\ ~(om = OPMODE_ON /\ ModePressed(portbits') /\ StartPressed(portbits')))
            => dm' = dm
         /\ (om = OPMODE_ON /\ ModePressed(portbits') /\ StartPressed(portbits')) =>
              (dm' = C18_NextDisplay(dm) /\ om' = OPMODE_OFF)
         /\ (om = OPMODE_OFF /\ ModePressed(portbits') /\ ~StartPressed(portbits')) =>
              (dm' = C18_NextDisplay(dm) /\ om' = OPMODE_OFF)]_vars

\* the second poll began in ON (the line before it reports on) and read both
\* buttons pressed: the load is off and the display has moved on to AMPS
C18_Witness ==
    /\ pc = "checkstate"
    /\ iter = 2
    /\ portbits = 0
    /\ LineMode(OPMODE_ON)
    /\ om = OPMODE_OFF
    /\ dm = AMPS


\* C19: SET can be reached from the initial OFF by some sequence of iterations
\* and button inputs. The initial mode is not SET, so such a sequence contains
\* a step into SET: for some mode other than SET and some input, checkstate's
\* switch, checkbuttons or state_changeopmode yields SET.
C19_SetReachable ==
    \E m \in OperationModes \ {OPMODE_SET} :
        \/ \E v \in {lvc - 1, lvc}, a \in {targetamps - 1, targetamps, targetamps + 1} :
               CutoffAndRegulate(m, v, a, loadduty, ccr1).om = OPMODE_SET
        \/ \E bits \in PortBits :
               ModeButton(bits, StartButton(bits, m, loadduty, ccr1).om, dm).om = OPMODE_SET
        \/ changeok(m, OPMODE_SET)


\* C20: at every line sent, from the first iteration on, the value setloadduty
\* last wrote to the compare register (initload's write to begin with) is the
\* loadduty the line prints. (The claim concludes from this that the applied
\* duty moves by at most one between consecutive iterations that end in ON.)
C20_ActuatorMatchesReported ==
    pc = "checkbuttons" =>
        /\ C17_LineReports(uart, om, loadduty)
        /\ ccr1 = loadduty

=============================================================================
